---------------------------- MODULE Spec2Model ----------------------------
(***************************************************************************)
(* Model of nostr-restore: the HTTP handlers of main.go (identifier        *)
(* decoding, archive query, profile fetch from relays, page rendering)     *)
(* and the browser restore flow of static/script.js.                       *)
(***************************************************************************)
EXTENDS Integers, Sequences, FiniteSets, TLC

(***************************************************************************)
(* Bounds of the model.                                                    *)
(***************************************************************************)
\* most rows the archive holds in one behaviour
MaxRows == 3
\* most events one relay subscription delivers before it ends
MaxEvents == 2

(***************************************************************************)
(* Strings are sequences of symbols, so that prefixes are computed.        *)
(***************************************************************************)
NpubPrefix == <<"n", "p", "u", "b", "1">>

HasPrefix(s, p) == Len(s) >= Len(p) /\ SubSeq(s, 1, Len(p)) = p

\* strings.TrimPrefix(r.URL.Path, "/npub/") is s without the prefix p
TrimPrefix(s, p) == IF HasPrefix(s, p) THEN SubSeq(s, Len(p) + 1, Len(s)) ELSE s

NpubRoute == <<"/", "npub", "/">>

(***************************************************************************)
(* nip19.Decode, the bech32 decoder the handler calls.  A string is        *)
(* hrp ++ "1" ++ data, split at the LAST "1"; the data part here is one    *)
(* payload symbol followed by its checksum symbol.                         *)
(***************************************************************************)
Checksum(k) == IF k = "A" THEN "a" ELSE IF k = "B" THEN "b" ELSE "?"

HexOf(k) == IF k = "A" THEN "hexA" ELSE IF k = "B" THEN "hexB" ELSE "hex?"

LastSep(s) ==
    LET idx == {i \in 1..Len(s) : s[i] = "1"}
    IN  IF idx = {} THEN 0 ELSE CHOOSE i \in idx : \A j \in idx : j <= i

Nip19Decode(s) ==
    LET i    == LastSep(s)
        hrp  == SubSeq(s, 1, i - 1)
        data == SubSeq(s, i + 1, Len(s))
    IN  IF i <= 1 \/ Len(data) # 2 \/ data[2] # Checksum(data[1])
        THEN [err |-> TRUE, prefix |-> <<>>, isString |-> FALSE, value |-> ""]
        ELSE IF hrp \in {<<"n","p","u","b">>, <<"n","s","e","c">>, <<"n","o","t","e">>}
        THEN [err |-> FALSE, prefix |-> hrp, isString |-> TRUE, value |-> HexOf(data[1])]
        ELSE IF hrp = <<"n","p","r","o","f","i","l","e">>
        THEN [err |-> FALSE, prefix |-> hrp, isString |-> FALSE, value |-> HexOf(data[1])]
        ELSE [err |-> TRUE, prefix |-> hrp, isString |-> FALSE, value |-> ""]

\* a decoder that trusts whatever nip19 accepts (no prefix checks)
npubToHex_NoPrefixChecks(npub) ==
    LET d == Nip19Decode(npub)
    IN  IF d.err THEN [err |-> TRUE, hex |-> ""] ELSE [err |-> FALSE, hex |-> d.value]

npubToHex(npub) ==
    IF ~HasPrefix(npub, NpubPrefix) THEN [err |-> TRUE, hex |-> ""]
    ELSE LET d == Nip19Decode(npub)
         IN  IF d.err THEN [err |-> TRUE, hex |-> ""]
             ELSE IF d.prefix # <<"n","p","u","b">> THEN [err |-> TRUE, hex |-> ""]
             ELSE IF ~d.isString THEN [err |-> TRUE, hex |-> ""]
             ELSE [err |-> FALSE, hex |-> d.value]

\* the identifiers a request carries in the model
IdEmpty    == <<>>
IdNpubA    == <<"n","p","u","b","1","A","a">>
IdNpubB    == <<"n","p","u","b","1","B","b">>
IdBadSum   == <<"n","p","u","b","1","A","b">>
IdOtherHrp == <<"n","p","u","b","1","1","A","a">>
IdNsecA    == <<"n","s","e","c","1","A","a">>
IdRawHex   == <<"A">>

Identifiers == {IdEmpty, IdNpubA, IdNpubB, IdBadSum, IdOtherHrp, IdNsecA, IdRawHex}

\* requests: /npub/<id>, /npub/?q=<id>, and two that carry both
Requests ==
    {[path |-> NpubRoute \o p, q |-> IdEmpty] : p \in Identifiers}
    \cup {[path |-> NpubRoute, q |-> q] : q \in Identifiers \ {IdNpubA}}
    \cup {[path |-> NpubRoute \o IdNpubB, q |-> IdNpubA],
          [path |-> NpubRoute \o IdBadSum, q |-> IdNpubA]}

(***************************************************************************)
(* The archive: rows of event_backup.                                      *)
(***************************************************************************)
Row(id, pk, ts, kind) == [id |-> id, pubkey |-> pk, created_at |-> ts, kind |-> kind]

AllRows ==
    { Row("e1", "hexA", 10, 0),
      Row("e2", "hexA", 20, 1),
      Row("e3", "hexA", 30, 1),
      Row("e4", "hexA", 30, 1),
      Row("e5", "hexA", 7, -1),
      Row("e6", "hexB", 20, 3) }

Archives == {S \in SUBSET AllRows : Cardinality(S) <= MaxRows}

\* WHERE pubkey = $1
Matching(db, pubkey) == {r \in db : r.pubkey = pubkey}

\* ORDER BY event_kind ASC, created_at DESC
InOrder(a, b) == a.kind < b.kind \/ (a.kind = b.kind /\ a.created_at >= b.created_at)

\* every order in which the database may deliver the selected rows
ResultSets(db, pubkey) ==
    LET S == Matching(db, pubkey)
        n == Cardinality(S)
    IN  {s \in [1..n -> S] :
            /\ \A i, j \in 1..n : i # j => s[i] # s[j]
            /\ \A i \in 1..n : \A j \in 1..n : i < j => InOrder(s[i], s[j])}

\* storage failures of one read: none, db.Query fails, rows.Scan of row `at`
\* fails, or rows.Next ends the iteration early after `at` rows
Faults(n) ==
    {[kind |-> "none", at |-> 0], [kind |-> "query", at |-> 0]}
    \cup {[kind |-> "scan", at |-> i] : i \in 1..n}
    \cup {[kind |-> "iter", at |-> i] : i \in 0..n}

RECURSIVE ScanRows(_, _, _, _)
ScanRows(rows, i, acc, fault) ==
    IF i > Len(rows) \/ (fault.kind = "iter" /\ fault.at = i - 1)
    THEN [events |-> acc, err |-> FALSE]
    ELSE IF fault.kind = "scan" /\ fault.at = i
    THEN [events |-> <<>>, err |-> TRUE]
    ELSE ScanRows(rows, i + 1, Append(acc, rows[i]), fault)

queryEventsByPubkey(rows, fault) ==
    IF fault.kind = "query" THEN [events |-> <<>>, err |-> TRUE]
    ELSE ScanRows(rows, 1, <<>>, fault)

(***************************************************************************)
(* http.ResponseWriter: the status line is fixed by the first WriteHeader  *)
(* or the first Write, whichever comes first; later WriteHeader calls are  *)
(* ignored.  status = 0: no header written yet.                            *)
(***************************************************************************)
Tok(t, s, n, id) == [t |-> t, s |-> s, n |-> n, id |-> id]

NewResponse == [status |-> 0, body |-> <<>>]

WriteHeader(resp, code) == IF resp.status = 0 THEN [resp EXCEPT !.status = code] ELSE resp

Write(resp, tok) == [status |-> IF resp.status = 0 THEN 200 ELSE resp.status,
                     body   |-> Append(resp.body, tok)]

RECURSIVE WriteAll(_, _)
WriteAll(resp, toks) ==
    IF toks = <<>> THEN resp ELSE WriteAll(Write(resp, Head(toks)), Tail(toks))

\* http.Error: WriteHeader(code), then the message is printed to the body
HttpError(resp, msg, code) == Write(WriteHeader(resp, code), Tok("error", msg, code, <<>>))

\* Template.Execute writes the page piece by piece; a Write that fails has
\* already fixed the header.  fault.at pieces were written before the failure.
RenderFaults(toks) ==
    {[fails |-> FALSE, at |-> 0]} \cup {[fails |-> TRUE, at |-> k] : k \in 0..(Len(toks) - 1)}

Execute(resp, toks, fault) ==
    IF ~fault.fails
    THEN [resp |-> WriteAll(resp, toks), err |-> FALSE]
    ELSE [resp |-> WriteHeader(WriteAll(resp, SubSeq(toks, 1, fault.at)), 200), err |-> TRUE]

(***************************************************************************)
(* Profiles (kind 0 content) and the events a relay may deliver.           *)
(***************************************************************************)
Profile(name, about, picture, nip05) ==
    [name |-> name, about |-> about, picture |-> picture, nip05 |-> nip05]

EmptyProfile == Profile("", "", "", "")

\* json.Unmarshal([]byte(ev.Content), &profile)
Unmarshal(content) ==
    IF content = "json_full"
    THEN [err |-> FALSE, profile |-> Profile("alice", "bio", "pic", "alice@example")]
    ELSE IF content = "json_noname"
    THEN [err |-> FALSE, profile |-> Profile("", "bio", "", "")]
    ELSE [err |-> TRUE, profile |-> EmptyProfile]

RelayEvents ==
    {[kind |-> 0, content |-> c] : c \in {"json_full", "json_noname", "garbage"}}
    \cup {[kind |-> 1, content |-> "note"]}

\* the relays of fetchProfileFromRelays, by position in the list
NumRelays == 3

\* the event is a profile the loop returns
IsProfile(ev) == ev.kind = 0 /\ ~Unmarshal(ev.content).err

(***************************************************************************)
(* The templates.                                                          *)
(***************************************************************************)
HomePage == <<Tok("home", "", 0, <<>>)>>

\* a heading with no fallback text
Heading_NoFallback(profile) == profile.name

Heading(profile) == IF profile.name # "" THEN profile.name ELSE "Nostr User"

EventToks(e) ==
    <<Tok("event", e.id, e.created_at, <<>>)>>
    \o (IF e.kind = 3 THEN <<Tok("restore", e.id, 0, <<>>)>> ELSE <<>>)

\* {{range .Events}} ... {{end}} with $currentKind = cur
RECURSIVE ExecRange(_, _)
ExecRange(evs, cur) ==
    IF evs = <<>> THEN <<>>
    ELSE LET e == Head(evs)
             changed == e.kind # cur
             pre == IF changed
                    THEN (IF cur # -1 THEN <<Tok("close", "", 0, <<>>)>> ELSE <<>>)
                         \o <<Tok("open", "", e.kind, <<>>)>>
                    ELSE <<>>
         IN  pre \o EventToks(e) \o ExecRange(Tail(evs), IF changed THEN e.kind ELSE cur)

\* the events container with the final </div> written unconditionally
EventsContainer_AlwaysClose(events) ==
    (IF events = <<>> THEN <<Tok("noevents", "", 0, <<>>)>> ELSE ExecRange(events, -1))
    \o <<Tok("close", "", 0, <<>>)>>

EventsContainer(events) ==
    (IF events = <<>> THEN <<Tok("noevents", "", 0, <<>>)>> ELSE ExecRange(events, -1))
    \o (IF Len(events) > 0 THEN <<Tok("close", "", 0, <<>>)>> ELSE <<>>)

EventsPage(npub, hex, events, profile) ==
    <<Tok("title", profile.name, 0, <<>>)>>
    \o (IF profile.picture # "" THEN <<Tok("picture", profile.picture, 0, <<>>)>> ELSE <<>>)
    \o <<Tok("heading", Heading(profile), 0, <<>>),
         Tok("npub", "", 0, npub),
         Tok("hexpubkey", hex, 0, <<>>)>>
    \o (IF profile.nip05 # "" THEN <<Tok("nip05", profile.nip05, 0, <<>>)>> ELSE <<>>)
    \o (IF profile.about # "" THEN <<Tok("about", profile.about, 0, <<>>)>> ELSE <<>>)
    \o <<Tok("count", "", Len(events), <<>>)>>
    \o EventsContainer(events)
    \o <<Tok("footer", "", 0, <<>>)>>

(***************************************************************************)
(* State of one request handled by the server.                             *)
(***************************************************************************)
VARIABLES
    req,          \* the request: URL path and query parameter q
    db,           \* the rows of event_backup
    pc,           \* position of the handler
    npub,         \* the identifier the handler decodes
    hexPubkey,    \* the decoded key ("" before decoding)
    queried,      \* the archive query was issued
    dbFault,      \* the storage failure that hit the read
    rows,         \* the rows the database selected, in delivery order
    events,       \* the events queryEventsByPubkey returned
    queryErr,     \* queryEventsByPubkey returned an error
    ridx,         \* position in the relay list
    open,         \* relays with an open connection
    ctxs,         \* relays whose timeout context is not cancelled
    contacted,    \* relays contacted so far, in order
    unreachable,  \* relays whose connection attempt failed
    delivered,    \* events read from the current subscription
    profile,      \* what fetchProfileFromRelays returned
    profileFrom,  \* -1: not returned; 0: the empty default; i: from relay i
    resp,         \* the response writer
    renderErr     \* Template.Execute returned an error

serverVars == <<req, db, pc, npub, hexPubkey, queried, dbFault, rows, events, queryErr,
                ridx, open, ctxs, contacted, unreachable, delivered, profile, profileFrom,
                resp, renderErr>>

\* state of the restore flow in the browser (static/script.js)
VARIABLES
    bpc,        \* position of the restore flow
    hasNostr,   \* window.nostr is present
    ws,         \* per target: the state of its WebSocket
    wasOpen,    \* targets whose open event has fired
    sentTo,     \* targets ws.send was called on
    logged      \* targets with a console.error entry

browserVars == <<bpc, hasNostr, ws, wasOpen, sentTo, logged>>

vars == <<serverVars, browserVars>>

HomeRequests == {[path |-> <<"/">>, q |-> IdEmpty], [path |-> <<"/", "favicon">>, q |-> IdEmpty]}

NoFault == [kind |-> "none", at |-> 0]

ServerInit ==
    /\ req \in Requests \cup HomeRequests
    /\ db \in Archives
    /\ pc = "start"
    /\ npub = <<>>
    /\ hexPubkey = ""
    /\ queried = FALSE
    /\ dbFault = NoFault
    /\ rows = <<>>
    /\ events = <<>>
    /\ queryErr = FALSE
    /\ ridx = 1
    /\ open = {}
    /\ ctxs = {}
    /\ contacted = <<>>
    /\ unreachable = {}
    /\ delivered = <<>>
    /\ profile = EmptyProfile
    /\ profileFrom = -1
    /\ resp = NewResponse
    /\ renderErr = FALSE

fetchVars == <<ridx, open, ctxs, contacted, unreachable, delivered, profile, profileFrom>>

queryVars == <<queried, dbFault, rows, events, queryErr>>

\* homeHandler
HomeHandler ==
    /\ pc = "start"
    /\ ~HasPrefix(req.path, NpubRoute)
    /\ IF req.path # <<"/">>
       THEN /\ resp' = HttpError(resp, "404 page not found", 404)
            /\ renderErr' = FALSE
       ELSE \E fault \in RenderFaults(HomePage) :
               LET x == Execute(resp, HomePage, fault)
               IN  /\ renderErr' = x.err
                   /\ resp' = IF x.err THEN HttpError(x.resp, "render", 500) ELSE x.resp
    /\ pc' = "done"
    /\ UNCHANGED <<req, db, npub, hexPubkey>>
    /\ UNCHANGED queryVars
    /\ UNCHANGED fetchVars
    /\ UNCHANGED browserVars

\* npubHandler: identifier from the path or from q, then npubToHex
NpubDecode ==
    /\ pc = "start"
    /\ HasPrefix(req.path, NpubRoute)
    /\ LET p  == TrimPrefix(req.path, NpubRoute)
           id == IF p = <<>> THEN req.q ELSE p
           d  == npubToHex(id)
       IN  /\ npub' = id
           /\ IF d.err
              THEN /\ resp' = HttpError(resp, "Invalid npub format", 400)
                   /\ pc' = "done"
                   /\ hexPubkey' = hexPubkey
              ELSE /\ resp' = resp
                   /\ pc' = "query"
                   /\ hexPubkey' = d.hex
    /\ UNCHANGED <<req, db, renderErr>>
    /\ UNCHANGED queryVars
    /\ UNCHANGED fetchVars
    /\ UNCHANGED browserVars

\* npubHandler: queryEventsByPubkey and its error check
NpubQuery ==
    /\ pc = "query"
    /\ \E rs \in ResultSets(db, hexPubkey) : \E fault \in Faults(Len(rs)) :
          LET r == queryEventsByPubkey(rs, fault)
          IN  /\ queried' = TRUE
              /\ dbFault' = fault
              /\ rows' = rs
              /\ events' = r.events
              /\ queryErr' = r.err
              /\ IF r.err
                 THEN /\ resp' = HttpError(resp, "Database error", 500)
                      /\ pc' = "done"
                 ELSE /\ resp' = resp
                      /\ pc' = "connect"
    /\ UNCHANGED <<req, db, npub, hexPubkey, renderErr>>
    /\ UNCHANGED fetchVars
    /\ UNCHANGED browserVars

(***************************************************************************)
(* fetchProfileFromRelays, one step per relay interaction.                 *)
(***************************************************************************)
\* a loop that tries the same endpoint again
NextRelay_Retry(i) == i

NextRelay(i) == i + 1

\* nostr.RelayConnect and the continue on failure
FetchConnect ==
    /\ pc = "connect"
    /\ ridx <= NumRelays
    /\ contacted' = Append(contacted, ridx)
    /\ \E ok \in BOOLEAN :
          IF ok
          THEN /\ open' = open \cup {ridx}
               /\ pc' = "subscribe"
               /\ ridx' = ridx
               /\ unreachable' = unreachable
          ELSE /\ open' = open
               /\ pc' = "connect"
               /\ ridx' = NextRelay(ridx)
               /\ unreachable' = unreachable \cup {ridx}
    /\ UNCHANGED <<req, db, npub, hexPubkey, ctxs, delivered, profile, profileFrom,
                   resp, renderErr>>
    /\ UNCHANGED queryVars
    /\ UNCHANGED browserVars

\* a subscribe failure that forgets relay.Close()
FetchSubscribe_NoClose ==
    /\ pc = "subscribe"
    /\ delivered' = <<>>
    /\ \E ok \in BOOLEAN :
          IF ok
          THEN /\ ctxs' = ctxs \cup {ridx}
               /\ pc' = "recv"
               /\ UNCHANGED <<open, ridx>>
          ELSE /\ ctxs' = ctxs \ {ridx}
               /\ open' = open
               /\ pc' = "connect"
               /\ ridx' = NextRelay(ridx)
    /\ UNCHANGED <<req, db, npub, hexPubkey, contacted, unreachable, profile, profileFrom,
                   resp, renderErr>>
    /\ UNCHANGED queryVars
    /\ UNCHANGED browserVars

\* context.WithTimeout, relay.Subscribe and the cleanup on failure
FetchSubscribe ==
    /\ pc = "subscribe"
    /\ delivered' = <<>>
    /\ \E ok \in BOOLEAN :
          IF ok
          THEN /\ ctxs' = ctxs \cup {ridx}
               /\ pc' = "recv"
               /\ UNCHANGED <<open, ridx>>
          ELSE /\ ctxs' = ctxs \ {ridx}
               /\ open' = open \ {ridx}
               /\ pc' = "connect"
               /\ ridx' = NextRelay(ridx)
    /\ UNCHANGED <<req, db, npub, hexPubkey, contacted, unreachable, profile, profileFrom,
                   resp, renderErr>>
    /\ UNCHANGED queryVars
    /\ UNCHANGED browserVars

\* one event read from evs.Events
FetchEvent ==
    /\ pc = "recv"
    /\ Len(delivered) < MaxEvents
    /\ \E ev \in RelayEvents :
          /\ delivered' = Append(delivered, ev)
          /\ IF IsProfile(ev)
             THEN /\ ctxs' = ctxs \ {ridx}
                  /\ open' = open \ {ridx}
                  /\ profile' = Unmarshal(ev.content).profile
                  /\ profileFrom' = ridx
                  /\ pc' = "render"
             ELSE UNCHANGED <<ctxs, open, profile, profileFrom, pc>>
    /\ UNCHANGED <<req, db, npub, hexPubkey, ridx, contacted, unreachable, resp, renderErr>>
    /\ UNCHANGED queryVars
    /\ UNCHANGED browserVars

\* evs.Events is closed (end of the subscription or its timeout)
FetchEnd ==
    /\ pc = "recv"
    /\ ctxs' = ctxs \ {ridx}
    /\ open' = open \ {ridx}
    /\ ridx' = NextRelay(ridx)
    /\ pc' = "connect"
    /\ delivered' = <<>>
    /\ UNCHANGED <<req, db, npub, hexPubkey, contacted, unreachable, profile, profileFrom,
                   resp, renderErr>>
    /\ UNCHANGED queryVars
    /\ UNCHANGED browserVars

\* the list is exhausted: return &UserProfile{}, nil
FetchReturnEmpty ==
    /\ pc = "connect"
    /\ ridx > NumRelays
    /\ profile' = EmptyProfile
    /\ profileFrom' = 0
    /\ pc' = "render"
    /\ UNCHANGED <<req, db, npub, hexPubkey, ridx, open, ctxs, contacted, unreachable,
                   delivered, resp, renderErr>>
    /\ UNCHANGED queryVars
    /\ UNCHANGED browserVars

\* npubHandler: the events template is executed into the response
NpubRender ==
    /\ pc = "render"
    /\ LET page == EventsPage(npub, hexPubkey, events, profile)
       IN  \E fault \in RenderFaults(page) :
              LET x == Execute(resp, page, fault)
              IN  /\ renderErr' = x.err
                  /\ resp' = IF x.err THEN HttpError(x.resp, "render", 500) ELSE x.resp
    /\ pc' = "done"
    /\ UNCHANGED <<req, db, npub, hexPubkey>>
    /\ UNCHANGED queryVars
    /\ UNCHANGED fetchVars
    /\ UNCHANGED browserVars

(***************************************************************************)
(* The browser restore flow of static/script.js.                           *)
(***************************************************************************)
\* the relays of showRestoreConfirmation, by position in the list
NumTargets == 5

Targets == 1..NumTargets

RelayList == [i \in Targets |-> i]

BrowserInit ==
    /\ bpc = "page"
    /\ hasNostr \in BOOLEAN
    /\ ws = [t \in Targets |-> "none"]
    /\ wasOpen = {}
    /\ sentTo = {}
    /\ logged = {}

\* sendEventToRelay without its try/catch: the exception reaches the caller
sendEventToRelay_NoCatch(w, lg, url, ctorThrows) ==
    IF ctorThrows
    THEN [ws |-> [w EXCEPT ![url] = "ctorfailed"], logged |-> lg, escaped |-> TRUE]
    ELSE [ws |-> [w EXCEPT ![url] = "connecting"], logged |-> lg, escaped |-> FALSE]

\* sendEventToRelay: new WebSocket(relayUrl) and the handlers, inside try/catch
sendEventToRelay(w, lg, url, ctorThrows) ==
    IF ctorThrows
    THEN [ws |-> [w EXCEPT ![url] = "ctorfailed"], logged |-> lg \cup {url}, escaped |-> FALSE]
    ELSE [ws |-> [w EXCEPT ![url] = "connecting"], logged |-> lg, escaped |-> FALSE]

\* relays.forEach(relayUrl => sendEventToRelay(signedEvent, relayUrl));
\* an exception that escapes the callback ends the iteration
RECURSIVE ForEach(_, _, _, _)
ForEach(w, lg, urls, throwers) ==
    IF urls = <<>> THEN [ws |-> w, logged |-> lg, escaped |-> FALSE]
    ELSE LET r == sendEventToRelay(w, lg, Head(urls), Head(urls) \in throwers)
         IN  IF r.escaped THEN r ELSE ForEach(r.ws, r.logged, Tail(urls), throwers)

\* showRestoreConfirmation, and restoreEvent up to its await
ShowRestoreConfirmation ==
    /\ bpc = "page"
    /\ \E confirmed \in BOOLEAN :
          bpc' = IF ~confirmed THEN "declined"
                 ELSE IF ~hasNostr THEN "noext"
                 ELSE "signing"
    /\ UNCHANGED <<hasNostr, ws, wasOpen, sentTo, logged>>
    /\ UNCHANGED serverVars

\* window.nostr.signEvent resolves: the rest of restoreEvent runs
SignResolved ==
    /\ bpc = "signing"
    /\ \E throwers \in SUBSET Targets :
          LET r == ForEach(ws, logged, RelayList, throwers)
          IN  /\ ws' = r.ws
              /\ logged' = r.logged
              /\ bpc' = IF r.escaped THEN "error" ELSE "initiated"
    /\ UNCHANGED <<hasNostr, wasOpen, sentTo>>
    /\ UNCHANGED serverVars

\* window.nostr.signEvent rejects: the catch block of restoreEvent
SignRejected ==
    /\ bpc = "signing"
    /\ bpc' = "error"
    /\ UNCHANGED <<hasNostr, ws, wasOpen, sentTo, logged>>
    /\ UNCHANGED serverVars

\* ws.onopen: the signed event is sent
WsOpen(t) ==
    /\ ws[t] = "connecting"
    /\ ws' = [ws EXCEPT ![t] = "open"]
    /\ wasOpen' = wasOpen \cup {t}
    /\ sentTo' = sentTo \cup {t}
    /\ UNCHANGED <<bpc, hasNostr, logged>>
    /\ UNCHANGED serverVars

\* ws.onerror
WsError(t) ==
    /\ ws[t] \in {"connecting", "open"}
    /\ ws' = [ws EXCEPT ![t] = "errored"]
    /\ logged' = logged \cup {t}
    /\ UNCHANGED <<bpc, hasNostr, wasOpen, sentTo>>
    /\ UNCHANGED serverVars

\* ws.onclose
WsClose(t) ==
    /\ ws[t] \in {"open", "errored"}
    /\ ws' = [ws EXCEPT ![t] = "closed"]
    /\ UNCHANGED <<bpc, hasNostr, wasOpen, sentTo, logged>>
    /\ UNCHANGED serverVars

(***************************************************************************)
(* Specifications: one server request; one restore flow in the browser.    *)
(***************************************************************************)
Init ==
    /\ ServerInit
    /\ BrowserInit
    /\ hasNostr = TRUE

Next ==
    \/ HomeHandler
    \/ NpubDecode
    \/ NpubQuery
    \/ FetchConnect
    \/ FetchSubscribe
    \/ FetchEvent
    \/ FetchEnd
    \/ FetchReturnEmpty
    \/ NpubRender

Spec == Init /\ [][Next]_vars

BrowserSpecInit ==
    /\ ServerInit
    /\ req = [path |-> <<"/">>, q |-> IdEmpty]
    /\ db = {}
    /\ BrowserInit

BrowserSpecNext ==
    \/ ShowRestoreConfirmation
    \/ SignResolved
    \/ SignRejected
    \/ \E t \in Targets : WsOpen(t)
    \/ \E t \in Targets : WsError(t)
    \/ \E t \in Targets : WsClose(t)

BrowserSpec == BrowserSpecInit /\ [][BrowserSpecNext]_vars

(***************************************************************************)
(* Vocabulary of the properties.                                           *)
(***************************************************************************)
IsNpubRequest == HasPrefix(req.path, NpubRoute)

\* the identifier of the request: the path remainder, or q when it is empty
RequestId ==
    LET p == SubSeq(req.path, Len(NpubRoute) + 1, Len(req.path))
    IN  IF p = <<>> THEN req.q ELSE p

BodyOf(kinds) ==
    LET Keep(x) == x.t \in kinds
    IN  SelectSeq(resp.body, Keep)

HasTok(t) == \E i \in 1..Len(resp.body) : resp.body[i].t = t

\* the ids of the events the page lists, in page order
ListedIds ==
    LET evs == BodyOf({"event"})
    IN  [i \in 1..Len(evs) |-> evs[i].s]

IdsOf(evs) == [i \in 1..Len(evs) |-> evs[i].id]

\* the page of the results view was written to its end
PageComplete == pc = "done" /\ IsNpubRequest /\ profileFrom >= 0 /\ ~renderErr

\* the groups of the maximal runs of equal category, as open/event/close marks
RECURSIVE RunGroups(_, _)
RunGroups(evs, i) ==
    IF i > Len(evs) THEN (IF Len(evs) > 0 THEN <<Tok("close", "", 0, <<>>)>> ELSE <<>>)
    ELSE (IF i = 1 THEN <<Tok("open", "", evs[i].kind, <<>>)>>
          ELSE IF evs[i].kind # evs[i - 1].kind
          THEN <<Tok("close", "", 0, <<>>), Tok("open", "", evs[i].kind, <<>>)>>
          ELSE <<>>)
         \o <<Tok("event", evs[i].id, evs[i].created_at, <<>>)>>
         \o RunGroups(evs, i + 1)

(***************************************************************************)
(* C1.  A request to /npub/ whose identifier npubToHex does not decode --  *)
(* every identifier not beginning with "npub1" among them -- is answered   *)
(* 400 "Invalid npub format", with no archive query and no relay contact.  *)
(***************************************************************************)
C1_InvalidIdentifierRejected ==
    (IsNpubRequest /\ pc # "start") =>
        /\ ~HasPrefix(RequestId, NpubPrefix) => npubToHex(RequestId).err
        /\ npubToHex(RequestId).err =>
              /\ pc = "done"
              /\ resp = [status |-> 400,
                         body |-> <<Tok("error", "Invalid npub format", 400, <<>>)>>]
              /\ ~queried
              /\ contacted = <<>>
              /\ open = {}

\* a well-formed nsec identifier sent in q was rejected
C1_Witness ==
    /\ pc = "done"
    /\ req.path = NpubRoute
    /\ req.q = IdNsecA
    /\ resp.status = 400

(***************************************************************************)
(* C2.  The sequence queryEventsByPubkey returns holds exactly the         *)
(* archived events of the author, each once, ordered by category           *)
(* ascending and, within a category, by timestamp descending.              *)
(***************************************************************************)
C2_ExactlyAuthorsEventsInOrder ==
    (queried /\ ~queryErr) =>
        /\ Len(events) = Cardinality(Matching(db, hexPubkey))
        /\ {events[i] : i \in 1..Len(events)} = Matching(db, hexPubkey)
        /\ \A i, j \in 1..Len(events) : i < j => InOrder(events[i], events[j])

(***************************************************************************)
(* C3.  A storage failure during the archive read (query, scan or          *)
(* iteration) makes queryEventsByPubkey return an error and the request    *)
(* end with 500; no page is built from a partial list.                     *)
(***************************************************************************)
C3_StorageFailureIsServerError ==
    (queried /\ dbFault.kind # "none") =>
        /\ queryErr
        /\ pc = "done"
        /\ resp.status = 500
        /\ ~HasTok("count")

(***************************************************************************)
(* C4 as stated.  With every profile endpoint unreachable the page is      *)
(* served with 200, lists the events, and shows the raw key in place of    *)
(* the name.                                                               *)
(***************************************************************************)
C4_RawKeyInPlaceOfName ==
    (PageComplete /\ unreachable = 1..NumRelays) =>
        /\ resp.status = 200
        /\ ListedIds = IdsOf(events)
        /\ BodyOf({"heading"}) = <<Tok("heading", hexPubkey, 0, <<>>)>>

(***************************************************************************)
(* C4 as amended.  With every profile endpoint unreachable the fetch       *)
(* returns the empty profile and the request ends with 200, never with an  *)
(* error status; the complete page shows the placeholder "Nostr User" in   *)
(* place of the name, the raw key on its own line, and exactly the events  *)
(* the archive query returned.                                             *)
(***************************************************************************)
C4_UnreachableRelaysStillRender ==
    (unreachable = 1..NumRelays) =>
        /\ pc \in {"connect", "render", "done"}
        /\ pc # "connect" => profileFrom = 0 /\ profile = EmptyProfile
        /\ pc = "done" => resp.status = 200
        /\ PageComplete =>
              /\ ~HasTok("error")
              /\ BodyOf({"title"}) = <<Tok("title", "", 0, <<>>)>>
              /\ BodyOf({"heading"}) = <<Tok("heading", "Nostr User", 0, <<>>)>>
              /\ BodyOf({"hexpubkey"}) = <<Tok("hexpubkey", hexPubkey, 0, <<>>)>>
              /\ BodyOf({"count"}) = <<Tok("count", "", Len(events), <<>>)>>
              /\ ListedIds = IdsOf(events)

\* all three relays refused, and a page with two events was served
C4_Witness ==
    /\ PageComplete
    /\ unreachable = 1..NumRelays
    /\ resp.status = 200
    /\ Len(events) = 2

(***************************************************************************)
(* C5.  The groups of the results view are exactly the maximal runs of     *)
(* consecutive events of equal category: one opened at the first event     *)
(* and at every change of category, each closed once before the next       *)
(* opens or the list ends, none closed that was not opened -- for every    *)
(* integer category.                                                       *)
(***************************************************************************)
C5_GroupsAreMaximalRuns ==
    PageComplete => BodyOf({"open", "close", "event"}) = RunGroups(events, 1)

C7_RenderFailureIsServerError ==
    renderErr => resp.status = 500

(***************************************************************************)
(* C8.  Once the viewer has confirmed and the extension has signed, a      *)
(* connection is attempted to every target of the list; a target whose     *)
(* constructor throws, or whose socket reports error or close, stops       *)
(* nothing at the other targets; the event is sent to a target exactly     *)
(* when its connection has opened; the flow waits for no acknowledgment.   *)
(***************************************************************************)
C8_TargetsIndependent ==
    /\ bpc # "initiated" => \A t \in Targets : ws[t] = "none"
    /\ bpc = "initiated" =>
          /\ \A t \in Targets : ws[t] # "none"
          /\ \A t \in Targets : ws[t] = "ctorfailed" => t \in logged
          /\ \A t \in Targets : ws[t] = "connecting" => ENABLED WsOpen(t)
    /\ sentTo = wasOpen
    /\ \A t \in Targets : ws[t] = "open" => t \in sentTo
    /\ \A t \in Targets : t \in sentTo => ws[t] \in {"open", "errored", "closed"}

\* the first target threw, the second failed, the third closed, and the
\* last two still received the event
C8_Witness ==
    /\ bpc = "initiated"
    /\ ws[1] = "ctorfailed"
    /\ ws[2] = "errored" /\ 2 \notin wasOpen
    /\ ws[3] = "closed" /\ 3 \notin wasOpen
    /\ sentTo = {4, 5}

(***************************************************************************)
(* C9 as stated.  fetchProfileFromRelays is an ordered fallback without    *)
(* retry: endpoints in list order, each at most once, a parsable profile   *)
(* event returned at once -- and an endpoint that returns unparsable       *)
(* content is left for the next endpoint, so no profile is ever returned   *)
(* from a subscription that has delivered unparsable content.              *)
(***************************************************************************)
InFetch == pc \in {"connect", "subscribe", "recv"}

\* a profile-category event whose content json.Unmarshal rejects
IsUnparsable(ev) == ev.kind = 0 /\ Unmarshal(ev.content).err

\* steps the fetch can still take, at most
FetchMeasure ==
    IF ~InFetch THEN 0
    ELSE 1 + (NumRelays + 1 - ridx) * (MaxEvents + 3)
           + (IF pc = "connect" THEN MaxEvents + 2
              ELSE IF pc = "subscribe" THEN MaxEvents + 1
              ELSE MaxEvents - Len(delivered))

C9_FallbackState ==
    /\ \A i \in 1..Len(contacted) : contacted[i] = i
    /\ Len(contacted) <= NumRelays
    /\ pc = "connect" => Len(contacted) = ridx - 1
    /\ pc \in {"subscribe", "recv"} => Len(contacted) = ridx
    /\ pc = "recv" => \A i \in 1..Len(delivered) : ~IsProfile(delivered[i])
    /\ (pc \in {"start", "query"} \/ InFetch) => profileFrom = -1
    /\ profileFrom = 0 => Len(contacted) = NumRelays /\ profile = EmptyProfile
    /\ profileFrom >= 1 =>
          /\ Len(contacted) = profileFrom
          /\ delivered # <<>>
          /\ IsProfile(delivered[Len(delivered)])
          /\ profile = Unmarshal(delivered[Len(delivered)].content).profile

C9_UnparsableContentMovesOn ==
    /\ C9_FallbackState
    /\ profileFrom >= 1 => \A i \in 1..Len(delivered) : ~IsUnparsable(delivered[i])

(***************************************************************************)
(* C9 as amended.  The endpoints are contacted in list order, each at      *)
(* most once; an endpoint that is unreachable, refuses the subscription    *)
(* or ends it without a parsable profile event is followed by the next     *)
(* one; an event that is not a parsable profile is skipped and the fetch   *)
(* keeps reading the same subscription; a parsable profile event is        *)
(* returned at once and no later endpoint is contacted; every step brings  *)
(* the fetch closer to its end, which comes after at most one pass.        *)
(***************************************************************************)
C9_OrderedFallback ==
    /\ []C9_FallbackState
    /\ [][InFetch => FetchMeasure' < FetchMeasure]_vars
    /\ [][(pc = "recv" /\ delivered' # delivered /\ delivered' # <<>>
             /\ ~IsProfile(delivered'[Len(delivered')]))
          => (pc' = "recv" /\ ridx' = ridx /\ open' = open /\ contacted' = contacted)]_vars

\* the first relay was unreachable, the second sent garbage and then a
\* profile, the third was never contacted
C9_Witness ==
    /\ pc = "done"
    /\ profileFrom = 2
    /\ unreachable = {1}
    /\ contacted = <<1, 2>>
    /\ Len(delivered) = 2
    /\ delivered[1].content = "garbage"

(***************************************************************************)
(* C10.  During the fetch at most one relay connection is open; every      *)
(* opened connection is closed, and its timeout context cancelled, before  *)
(* the next endpoint is contacted and before the function returns; a       *)
(* failed connection attempt leaves nothing open.                          *)
(***************************************************************************)
C10_OneConnectionAlwaysClosed ==
    /\ Cardinality(open) <= 1
    /\ ctxs \subseteq open
    /\ unreachable \cap open = {}
    /\ pc = "subscribe" => open = {ridx} /\ ctxs = {}
    /\ pc = "recv" => open = {ridx} /\ ctxs = {ridx}
    /\ pc \notin {"subscribe", "recv"} => open = {} /\ ctxs = {}

\* the first relay refused the subscription, the second ended it without a
\* profile, and the third is about to be contacted with nothing left open
C10_Witness ==
    /\ pc = "connect"
    /\ ridx = 3
    /\ contacted = <<1, 2>>
    /\ unreachable = {}
    /\ open = {}
    /\ ctxs = {}

=============================================================================
